---- MODULE Spec2Model ----
(***************************************************************************)
(* The Color-Matched Nearest-Neighbor (CMNN) photometric-redshift          *)
(* estimator of photoz/CMNN_Estimator/leave-one-out_method.ipynb, run with *)
(* the leave-one-out loop of section 2.2 of that notebook.                 *)
(*                                                                         *)
(* Numbers.  The notebook works on float64 arrays.  A float is modelled as *)
(* a record [k, v]: k = "num" with an integer v, k = "nan" or k = "inf".   *)
(* Colours and colour errors are integers in one common (arbitrary) unit,  *)
(* redshifts are integers in units of 0.01, and every dimensionless ratio  *)
(* (a Mahalanobis distance, a threshold) is a fixed-point number in units  *)
(* of 1e-6.  Galaxies are numbered from 0 as in the notebook, colours from *)
(* 1 to K.                                                                 *)
(***************************************************************************)
EXTENDS Integers, Sequences, FiniteSets, TLC

\* ---------------------------------------------------------------- bounds
\* most galaxies in a Sample of the driver family
MaxN == 3
\* the random generator's initial states are 0..MaxSeed
MaxSeed == 1

\* ------------------------------------------------------ program constants
\* number of colours: data_c = np.zeros((len(data_m),5))
K == 5
\* DM[i] = 99.9, in units of 1e-6
SelfDM == 99900000
\* the 0.00010 of the index selection, in units of 1e-6
Eps == 100
\* data_pz, data_pze = np.zeros(...) - 1.0, in units of 0.01
Unset == -100
\* the progress report fires at i == 100, i == 1000 and i == Ncalc-1000
Progress1 == 100
Progress2 == 1000

\* ------------------------------------------------------------ float64
\* one, in the fixed-point unit of the dimensionless ratios
Micro == 1000 * 1000

NaN == [k |-> "nan", v |-> 0]
Inf == [k |-> "inf", v |-> 0]
Num(x) == [k |-> "num", v |-> x]

IsNaN(a) == a.k = "nan"
IsInf(a) == a.k = "inf"
IsNum(a) == a.k = "num"

\* a - b of two finite-or-NaN floats
FSub(a, b) == IF IsNaN(a) \/ IsNaN(b) THEN NaN ELSE Num(a.v - b.v)

\* a + b of two finite-or-NaN floats
FAdd(a, b) == IF IsNaN(a) \/ IsNaN(b) THEN NaN ELSE Num(a.v + b.v)

\* a ** 2
FSq(a) == IF IsNaN(a) THEN NaN ELSE Num(a.v * a.v)

\* floor(a * 1e6 / b) for a >= 0, b > 0, by long division in two steps of
\* 1000 so that no intermediate product leaves the 32-bit integers
MicroQuot(a, b) ==
    LET r1 == (a % b) * 1000
        r2 == (r1 % b) * 1000
    IN  (a \div b) * Micro + (r1 \div b) * 1000 + (r2 \div b)

\* a / b for a >= 0, b >= 0 in the same unit; the quotient in units of 1e-6.
\* IEEE: x/0 is inf for x > 0 and 0/0 is NaN (numpy warns, it does not raise).
FDiv(a, b) ==
    IF IsNaN(a) \/ IsNaN(b) THEN NaN
    ELSE IF b.v = 0 THEN (IF a.v = 0 THEN NaN ELSE Inf)
    ELSE Num(MicroQuot(a.v, b.v))

\* a > b; every comparison with NaN is False
FGt(a, b) ==
    IF IsNaN(a) \/ IsNaN(b) THEN FALSE
    ELSE IF IsInf(b) THEN FALSE
    ELSE IF IsInf(a) THEN TRUE
    ELSE a.v > b.v

\* a <= b; every comparison with NaN is False
FLe(a, b) ==
    IF IsNaN(a) \/ IsNaN(b) THEN FALSE
    ELSE IF IsInf(b) THEN TRUE
    ELSE IF IsInf(a) THEN FALSE
    ELSE a.v <= b.v

\* np.nansum over the K entries of a row: NaN counts as zero, inf absorbs
RECURSIVE NanSumTo(_, _)
NanSumTo(row, n) ==
    IF n = 0 THEN Num(0)
    ELSE LET rest == NanSumTo(row, n - 1)
             x == row[n]
         IN  IF IsNaN(x) THEN rest
             ELSE IF IsInf(x) \/ IsInf(rest) THEN Inf
             ELSE Num(rest.v + x.v)

NanSum(row) == NanSumTo(row, K)

\* the dtype='int' of the DOF sum: a float in units of 1e-6 truncated to int
ToInt(a) == a.v \div Micro

\* largest r with r*r <= x, looked for in steps of 32 and then of 1
Isqrt(x) ==
    LET c == CHOOSE h \in 0..(x \div 1024 + 32) : (32 * (h + 1)) * (32 * (h + 1)) > x
    IN  CHOOSE r \in (32 * c)..(32 * c + 31) : r * r <= x /\ (r + 1) * (r + 1) > x

\* ---------------------------------------------------------------- state
VARIABLES
    data_m,             \* galaxy -> band -> float: the apparent magnitudes
    data_me,            \* galaxy -> band -> float: the magnitude errors
    data_c,             \* galaxy -> colour -> float: the colours
    data_ce,            \* galaxy -> colour -> float: the colour errors
    data_tz,            \* galaxy -> true redshift
    cmnn_ppf,           \* the percent point function, in units of 0.001
    cmnn_minNclr,       \* the minimum number of colours in common
    cmnn_thresh_table,  \* degrees of freedom 0..K -> threshold
    Ncalc,              \* how many galaxies the loop is asked to process
    data_pz,            \* galaxy -> float: the photo-z
    data_pze,           \* galaxy -> float: the photo-z uncertainty
    i,                  \* the loop variable
    pc,                 \* "loop", "done" or "error"
    err,                \* the exception that ended the loop, or "none"
    last,               \* the galaxy whose DM, DOF, data_th, index are held; -1: none
    DM,                 \* galaxy -> float, of the last iteration (DM[last] reset)
    DOF,                \* galaxy -> int, of the last iteration
    data_th,            \* galaxy -> float, of the last iteration
    index,              \* the CMNN subset of the last iteration
    rng,                \* state of numpy's global random generator
    seed,               \* <<state of the generator at the start of pass 1, of pass 2>>
    run,                \* 1: first pass over the Sample, 2: second pass
    first_pz,           \* data_pz at the end of the first pass
    first_pze,          \* data_pze at the end of the first pass
    subsets,            \* galaxy processed in this pass -> the index selected for it
    first_subsets,      \* subsets at the end of the first pass
    order,              \* the queries of this pass, in the order they were run
    first_order,        \* order at the end of the first pass
    summary             \* <<galaxies without, galaxies with a pz>> once printed

sample == <<data_m, data_me, data_c, data_ce, data_tz>>
config == <<cmnn_ppf, cmnn_minNclr, cmnn_thresh_table, Ncalc, seed>>
output == <<data_pz, data_pze>>
locals == <<last, DM, DOF, data_th, index>>
passes == <<run, first_pz, first_pze, first_subsets, first_order>>
vars == <<sample, config, output, i, pc, err, locals, rng, passes, subsets, order, summary>>

\* len(data_c): the galaxies are 0..N-1
N == Cardinality(DOMAIN data_tz)
Galaxies == DOMAIN data_tz
Colours == 1..K
\* the K + 1 bands u, g, r, i, z, y of data_m and data_me
Bands == 1..(K + 1)

\* ------------------------------------------------- colours from magnitudes
\* np.sqrt( x ) of a finite-or-NaN float, rounded down
FSqrt(a) == IF IsNaN(a) THEN NaN ELSE Num(Isqrt(a.v))

\* mutant of ColoursOf: a magnitude that was not measured is read as 99
ColoursOfSentinel(m) ==
    [k \in Colours |-> FSub(IF IsNaN(m[k]) THEN Num(99) ELSE m[k],
                            IF IsNaN(m[k + 1]) THEN Num(99) ELSE m[k + 1])]

\* data_c[:,k] = data_m[:,k] - data_m[:,k+1], for one galaxy
ColoursOf(m) == [k \in Colours |-> FSub(m[k], m[k + 1])]

\* data_ce[:,k] = np.sqrt( data_me[:,k]**2 + data_me[:,k+1]**2 ), for one galaxy
ColourErrsOf(me) == [k \in Colours |-> FSqrt(FAdd(FSq(me[k]), FSq(me[k + 1])))]

\* ------------------------------------------------------- threshold table
\* scipy.stats.chi2.ppf(p, d) for d in 1..5 and p in units of 0.001, by its
\* values in units of 1e-6: NaN outside [0,1], 0 at p = 0, inf at p = 1.
\* A float literal just below 1, such as 0.99999999999999999999, is 1.0.
Chi2Ppf(p, d) ==
    IF p < 0 \/ p > 1000 THEN NaN
    ELSE IF p = 0 THEN Num(0)
    ELSE IF p = 1000 THEN Inf
    ELSE IF p = 1 THEN Num(<<2, 2001, 24298, 90804, 210213>>[d])
    ELSE IF p = 680 THEN Num(<<988946, 2278869, 3505882, 4695422, 5860802>>[d])
    ELSE Num(<<3841459, 5991465, 7814728, 9487729, 11070498>>[d])

\* mutant of ThreshTable: entry 0 keeps chi2.ppf(p, 0), which is NaN
ThreshTableNoZero(p) == [d \in 0..K |-> IF d = 0 THEN NaN ELSE Chi2Ppf(p, d)]

\* cmnn_thresh_table[d] = chi2.ppf(cmnn_ppf, d); cmnn_thresh_table[0] = 0.0
ThreshTable(p) == [d \in 0..K |-> IF d = 0 THEN Num(0) ELSE Chi2Ppf(p, d)]

\* ------------------------------------------------------ pairwise distance
\* mutant of DMTermOn: the difference is normalised by the reference's error
DMTermOnReference(c, ce, q, r, k) ==
    FDiv(FSq(FSub(c[q][k], c[r][k])), FSq(ce[r][k]))

\* ( c[i,k] - c[r,k] )**2 / ce[i,k]**2, for colour and colour-error arrays
\* c and ce
DMTermOn(c, ce, q, r, k) ==
    FDiv(FSq(FSub(c[q][k], c[r][k])), FSq(ce[q][k]))

\* ( data_c[i,k] - data_c[r,k] )**2 / data_ce[i,k]**2
DMTerm(q, r, k) == DMTermOn(data_c, data_ce, q, r, k)

\* DM = np.nansum( ..., axis=1 )
DMRow(q) == [r \in Galaxies |-> NanSum([k \in Colours |-> DMTerm(q, r, k)])]

\* mutant of DOFTerm: the ratio taken over the query's colour alone
DOFTermQueryOnly(q, r, k) ==
    LET s == FAdd(FSq(data_c[q][k]), Num(1))
    IN  FDiv(s, s)

\* ( c_i**2 + c_r**2 + 1.0 ) / ( c_i**2 + c_r**2 + 1.0 )
DOFTerm(q, r, k) ==
    LET s == FAdd(FAdd(FSq(data_c[q][k]), FSq(data_c[r][k])), Num(1))
    IN  FDiv(s, s)

\* DOF = np.nansum( ..., axis=1, dtype='int' )
DOFRow(q) ==
    [r \in Galaxies |-> ToInt(NanSum([k \in Colours |-> DOFTerm(q, r, k)]))]

\* mutant of ThRow: the threshold of K colours for every pair
ThRowOfK(dof) == [r \in Galaxies |-> cmnn_thresh_table[K]]

\* data_th = zeros; for d in range(6): data_th[ DOF == d ] = cmnn_thresh_table[d]
ThRow(dof) ==
    [r \in Galaxies |-> IF dof[r] \in 0..K THEN cmnn_thresh_table[dof[r]] ELSE Num(0)]

\* DM[i] = 99.9
ResetSelf(dm, q) == [dm EXCEPT ![q] = Num(SelfDM)]

\* mutant of Select: the two tolerances 0.0001 written as 0
SelectAboveZero(dm, dof, th) ==
    { r \in Galaxies :
        /\ dof[r] >= cmnn_minNclr
        /\ FGt(th[r], Num(0))
        /\ FGt(dm[r], Num(0))
        /\ FLe(dm[r], th[r]) }

\* mutant of Select: a reference that already holds a result of this pass is
\* not used again
SelectUnestimated(dm, dof, th) ==
    { r \in Galaxies :
        /\ dof[r] >= cmnn_minNclr
        /\ FGt(th[r], Num(Eps))
        /\ FGt(dm[r], Num(Eps))
        /\ FLe(dm[r], th[r])
        /\ data_pz[r] = Num(Unset) }

\* mutant of Select: the test DM <= data_th is left out
SelectNoThreshold(dm, dof, th) ==
    { r \in Galaxies :
        /\ dof[r] >= cmnn_minNclr
        /\ FGt(th[r], Num(Eps))
        /\ FGt(dm[r], Num(Eps)) }

\* mutant of Select: the test DOF >= cmnn_minNclr is left out
SelectAnyDOF(dm, dof, th) ==
    { r \in Galaxies :
        /\ FGt(th[r], Num(Eps))
        /\ FGt(dm[r], Num(Eps))
        /\ FLe(dm[r], th[r]) }

\* mutant of Select: only the galaxies that are queries themselves
SelectAmongQueries(dm, dof, th) ==
    { r \in Galaxies :
        /\ r < Ncalc
        /\ dof[r] >= cmnn_minNclr
        /\ FGt(th[r], Num(Eps))
        /\ FGt(dm[r], Num(Eps))
        /\ FLe(dm[r], th[r]) }

\* index = np.where( (DOF >= minNclr) & (data_th > 0.0001) & (DM > 0.0001) & (DM <= data_th) )
Select(dm, dof, th) ==
    { r \in Galaxies :
        /\ dof[r] >= cmnn_minNclr
        /\ FGt(th[r], Num(Eps))
        /\ FGt(dm[r], Num(Eps))
        /\ FLe(dm[r], th[r]) }

\* -------------------------------------------------------------- estimator
RECURSIVE SetSum(_, _)
SetSum(S, f) ==
    IF S = {} THEN 0
    ELSE LET x == CHOOSE y \in S : TRUE IN f[x] + SetSum(S \ {x}, f)

\* mutant of Std: np.mean in place of np.std
StdAsMean(S) == Num(SetSum(S, data_tz) \div Cardinality(S))

\* mutant of Std: the sample standard deviation (ddof=1), NaN for one member
StdSample(S) ==
    LET n == Cardinality(S)
        s1 == SetSum(S, data_tz)
        dev2 == [g \in S |-> (n * data_tz[g] - s1) * (n * data_tz[g] - s1)]
    IN  IF n = 1 THEN NaN ELSE Num(Isqrt(SetSum(S, dev2) \div (n - 1)) \div n)

\* np.std( data_tz[index] ): the population standard deviation,
\* sqrt( mean( (x - mean(x))**2 ) ), in units of 0.01 and rounded down
Std(S) ==
    LET n == Cardinality(S)
        s1 == SetSum(S, data_tz)
        dev2 == [g \in S |-> (n * data_tz[g] - s1) * (n * data_tz[g] - s1)]
    IN  Num(Isqrt(SetSum(S, dev2) \div n) \div n)

\* numpy's global generator: its states, and the state after one draw
RngMod == 6
RngNext(s) == (s + 1) % RngMod

\* np.random.choice( index, size=1, replace=False )[0] in generator state s:
\* index is in increasing order, and the draw picks one position of it
Choice(S, s) ==
    LET pos == s % Cardinality(S)
    IN  CHOOSE g \in S : Cardinality({h \in S : h < g}) = pos

\* mutant of Estimate: no else branch, an empty subset writes nothing new
EstimateNoElse(idx, s) ==
    IF idx # {}
    THEN [pz |-> Num(data_tz[Choice(idx, s)]), pze |-> Std(idx), rng |-> RngNext(s)]
    ELSE [pz |-> Num(Unset), pze |-> Num(Unset), rng |-> s]

\* mutant of Estimate: the uncertainty taken from the drawn member alone
EstimateSpreadOfRival(idx, s) ==
    IF idx # {}
    THEN [pz |-> Num(data_tz[Choice(idx, s)]),
          pze |-> Num(data_tz[Choice(idx, s)]), rng |-> RngNext(s)]
    ELSE [pz |-> NaN, pze |-> NaN, rng |-> s]

\* mutant of Estimate: a draw is taken for an empty subset too
EstimateDrawAlways(idx, s) ==
    IF idx # {}
    THEN [pz |-> Num(data_tz[Choice(idx, s)]), pze |-> Std(idx), rng |-> RngNext(s)]
    ELSE [pz |-> NaN, pze |-> NaN, rng |-> RngNext(s)]

\* if len(index) > 0: the photo-z of a random member and the spread of the
\* subset, one draw taken from the generator; else: NaN for both, no draw
Estimate(idx, s) ==
    IF idx # {}
    THEN [pz |-> Num(data_tz[Choice(idx, s)]), pze |-> Std(idx), rng |-> RngNext(s)]
    ELSE [pz |-> NaN, pze |-> NaN, rng |-> s]

\* -------------------------------------------------------------- the loop
\* if (i == 100) | (i == 1000) | (i == Ncalc-1000), at loop index q
ProgressFires(q) == q = Progress1 \/ q = Progress2 \/ q = Ncalc - Progress2

Fail(e) ==
    /\ pc' = "error"
    /\ err' = e
    /\ UNCHANGED <<sample, config, output, i, locals, rng, passes, subsets, order, summary>>

\* mutant of WriteAt: the slice arr[i:] is assigned instead of the entry arr[i]
WriteFrom(arr, g, v) == [h \in DOMAIN arr |-> IF h >= g THEN v ELSE arr[h]]

\* data_pz[i] = v, data_pze[i] = v: one element of an output array
WriteAt(arr, g, v) == [arr EXCEPT ![g] = v]

\* subsets with the index selected for q added
Record(q, idx) == [g \in DOMAIN subsets \cup {q} |-> IF g = q THEN idx ELSE subsets[g]]

\* mutant of Iterate: the query is marked as used in the Sample itself, by
\* overwriting its true redshift
IterateMarkingSample(q) ==
    IF ProgressFires(q) /\ q = 0
    THEN Fail("ZeroDivisionError")
    ELSE IF q >= N
    THEN Fail("IndexError")
    ELSE \E dof \in {DOFRow(q)} :
         \E th \in {ThRow(dof)} :
         \E dm \in {ResetSelf(DMRow(q), q)} :
         \E idx \in {Select(dm, dof, th)} :
         \E e \in {Estimate(idx, rng)} :
             /\ DM' = dm
             /\ DOF' = dof
             /\ data_th' = th
             /\ index' = idx
             /\ last' = q
             /\ data_pz' = WriteAt(data_pz, q, e.pz)
             /\ data_pze' = WriteAt(data_pze, q, e.pze)
             /\ rng' = e.rng
             /\ subsets' = Record(q, idx)
             /\ order' = Append(order, q)
             /\ i' = q + 1
             /\ data_tz' = WriteAt(data_tz, q, Unset)
             /\ UNCHANGED <<data_m, data_me, data_c, data_ce, config, pc, err, passes, summary>>

\* mutant of Iterate: an empty CMNN subset raises an exception
IterateAbortOnEmpty(q) ==
    IF ProgressFires(q) /\ q = 0
    THEN Fail("ZeroDivisionError")
    ELSE IF q >= N
    THEN Fail("IndexError")
    ELSE \E dof \in {DOFRow(q)} :
         \E th \in {ThRow(dof)} :
         \E dm \in {ResetSelf(DMRow(q), q)} :
         \E idx \in {Select(dm, dof, th)} :
         \E e \in {Estimate(idx, rng)} :
             IF idx = {} THEN Fail("ValueError") ELSE
             /\ DM' = dm
             /\ DOF' = dof
             /\ data_th' = th
             /\ index' = idx
             /\ last' = q
             /\ data_pz' = WriteAt(data_pz, q, e.pz)
             /\ data_pze' = WriteAt(data_pze, q, e.pze)
             /\ rng' = e.rng
             /\ subsets' = Record(q, idx)
             /\ order' = Append(order, q)
             /\ i' = q + 1
             /\ UNCHANGED <<sample, config, pc, err, passes, summary>>

\* the body of the loop at loop index q
Iterate(q) ==
    IF ProgressFires(q) /\ q = 0
    THEN \* (t2-t1)/float(i): a timedelta divided by 0.0
         Fail("ZeroDivisionError")
    ELSE IF q >= N
    THEN \* data_c[i,:] past the end of the array
         Fail("IndexError")
    ELSE \E dof \in {DOFRow(q)} :
         \E th \in {ThRow(dof)} :
         \E dm \in {ResetSelf(DMRow(q), q)} :
         \E idx \in {Select(dm, dof, th)} :
         \E e \in {Estimate(idx, rng)} :
             /\ DM' = dm
             /\ DOF' = dof
             /\ data_th' = th
             /\ index' = idx
             /\ last' = q
             /\ data_pz' = WriteAt(data_pz, q, e.pz)
             /\ data_pze' = WriteAt(data_pze, q, e.pze)
             /\ rng' = e.rng
             /\ subsets' = Record(q, idx)
             /\ order' = Append(order, q)
             /\ i' = q + 1
             /\ UNCHANGED <<sample, config, pc, err, passes, summary>>

\* mutant of InRange: the last value of the range is left out
InRangeShort == i < Ncalc - 1

\* range( Ncalc ) has a next value after i
InRange == i < Ncalc

\* one iteration of "for i in range( Ncalc )"
LoopBody ==
    /\ pc = "loop"
    /\ InRange
    /\ Iterate(i)

\* range( Ncalc ) is exhausted
LoopExit ==
    /\ pc = "loop"
    /\ ~InRange
    /\ pc' = "done"
    /\ UNCHANGED <<sample, config, output, i, err, locals, rng, passes, subsets, order, summary>>

\* tx = np.where( np.isnan(data_pz) )[0]; len(tx)
CountNoPz == Cardinality({g \in Galaxies : IsNaN(data_pz[g])})

\* mutant of CountPz: every entry that is not NaN counts as an estimate
CountPzNotNaN == Cardinality({g \in Galaxies : ~IsNaN(data_pz[g])})

\* tx = np.where( data_pz > 0.0 )[0]; len(tx)
CountPz == Cardinality({g \in Galaxies : FGt(data_pz[g], Num(0))})

\* section 2.2.1, the quick check of the success rate, run after the loop
Summary ==
    /\ pc = "done"
    /\ summary = << >>
    /\ summary' = <<CountNoPz, CountPz>>
    /\ UNCHANGED <<sample, config, output, i, pc, err, locals, rng, passes, subsets, order>>

\* data_pz = np.zeros( len(data_m) ) - 1.0, and the same for data_pze
FreshOutput == [g \in Galaxies |-> Num(Unset)]

\* mutant of Rerun: the generator carries on from where the first pass left it
RerunSameStream ==
    /\ pc = "done"
    /\ run = 1
    /\ first_pz' = data_pz
    /\ first_pze' = data_pze
    /\ first_subsets' = subsets
    /\ first_order' = order
    /\ run' = 2
    /\ data_pz' = FreshOutput
    /\ data_pze' = FreshOutput
    /\ i' = 0
    /\ pc' = "loop"
    /\ last' = -1
    /\ DM' = << >>
    /\ DOF' = << >>
    /\ data_th' = << >>
    /\ index' = {}
    /\ subsets' = << >>
    /\ order' = << >>
    /\ summary' = << >>
    /\ rng' = rng
    /\ UNCHANGED <<sample, config, err>>

\* The cells of section 2.2 run again on the same Sample: the output arrays
\* are made afresh and the loop starts over, the generator in state seed[2].
Rerun ==
    /\ pc = "done"
    /\ run = 1
    /\ first_pz' = data_pz
    /\ first_pze' = data_pze
    /\ first_subsets' = subsets
    /\ first_order' = order
    /\ run' = 2
    /\ data_pz' = FreshOutput
    /\ data_pze' = FreshOutput
    /\ i' = 0
    /\ pc' = "loop"
    /\ last' = -1
    /\ DM' = << >>
    /\ DOF' = << >>
    /\ data_th' = << >>
    /\ index' = {}
    /\ subsets' = << >>
    /\ order' = << >>
    /\ summary' = << >>
    /\ rng' = seed[2]
    /\ UNCHANGED <<sample, config, err>>

\* ------------------------------------------------------------ the inputs
NoMag == NaN
ColourVals == {0, 1, 3}
MissPatterns == {{}, {1}, {2}, Bands}
Seeds == 0..MaxSeed

\* magnitudes whose colours are all a, the bands of miss not measured
MagVec(a, miss) == [b \in Bands |-> IF b \in miss THEN NoMag ELSE Num(a * (K + 1 - b))]
\* magnitude errors that give the colour error e in every colour
MagErrVec(e) == [b \in Bands |-> IF b \in {1, 3, 5} THEN Num(e) ELSE Num(0)]
\* magnitude errors that give the colour error e in every colour but 0 in colour 2
MagErrZero(e) == [b \in Bands |-> IF b \in {1, 4, 6} THEN Num(e) ELSE Num(0)]
\* magnitude errors that give the colour error e in every colour but NaN in colour 1
MagErrMissing(e) == [b \in Bands |-> IF b = 1 THEN NaN ELSE IF b \in {2, 4, 6} THEN Num(e) ELSE Num(0)]
\* true redshifts 0.5, 0.5 + step, 0.5 + 2 step, ... over the galaxies of dom
ZVec(dom, step) == [g \in dom |-> 50 + step * g]

PairMags == {MagVec(a, m) : a \in ColourVals, m \in MissPatterns}
PairMagErrs == {MagErrVec(1), MagErrVec(300), MagErrZero(1), MagErrMissing(1)}
DriverMags == {MagVec(a, {}) : a \in ColourVals}
DriverMagErrs == {MagErrVec(1)}

PpfVals == {0, 1, 680, 950, 1000, 1500}
MinNclrVals == {0, 4, 5, 6}

\* The state once the cells before the loop have run.  Two families of
\* Samples.  InitPair: two galaxies with missing magnitudes and with missing,
\* zero and small colour errors.  InitDriver: up to MaxN galaxies with every
\* colour measured, under every setting of cmnn_ppf and cmnn_minNclr, or of
\* Ncalc, or of the generator's two initial states.
InitPair ==
    /\ data_m \in [0..1 -> PairMags]
    /\ data_me \in [0..1 -> PairMagErrs]
    /\ data_tz = ZVec(0..1, 150)
    /\ cmnn_ppf = 680
    /\ cmnn_minNclr \in {0, 4, 5}
    /\ Ncalc = 2
    /\ seed = <<0, 0>>

InitDriver ==
    \E n \in 0..MaxN :
        /\ data_m \in [0..(n - 1) -> DriverMags]
        /\ data_me \in [0..(n - 1) -> DriverMagErrs]
        /\ data_tz \in {ZVec(0..(n - 1), step) : step \in {0, 50}}
        /\ \/ /\ cmnn_ppf \in PpfVals
              /\ cmnn_minNclr \in MinNclrVals
              /\ Ncalc = n
              /\ seed = <<0, 0>>
           \/ /\ cmnn_ppf = 680
              /\ cmnn_minNclr = 5
              /\ Ncalc \in 0..(n + 1) \cup {Progress2}
              /\ seed = <<0, 0>>
           \/ /\ cmnn_ppf = 680
              /\ cmnn_minNclr = 5
              /\ Ncalc = n
              /\ seed \in Seeds \X Seeds

Init ==
    /\ InitPair \/ InitDriver
    /\ data_c = [g \in DOMAIN data_m |-> ColoursOf(data_m[g])]
    /\ data_ce = [g \in DOMAIN data_me |-> ColourErrsOf(data_me[g])]
    /\ cmnn_thresh_table = ThreshTable(cmnn_ppf)
    /\ data_pz = FreshOutput
    /\ data_pze = FreshOutput
    /\ i = 0
    /\ pc = "loop"
    /\ err = "none"
    /\ last = -1
    /\ DM = << >>
    /\ DOF = << >>
    /\ data_th = << >>
    /\ index = {}
    /\ rng = seed[1]
    /\ run = 1
    /\ first_pz = << >>
    /\ first_pze = << >>
    /\ subsets = << >>
    /\ first_subsets = << >>
    /\ order = << >>
    /\ first_order = << >>
    /\ summary = << >>

Next == LoopBody \/ LoopExit \/ Summary \/ Rerun

Spec == Init /\ [][Next]_vars

\* The runs behind the termination claims: the notebook's settings
\* (cmnn_ppf = 0.68, cmnn_minNclr = 5) with every Ncalc of the sweep.
SweepSettings ==
    /\ cmnn_ppf = 680
    /\ cmnn_minNclr = 5
    /\ seed = <<0, 0>>
    /\ data_tz = ZVec(Galaxies, 50)

InitSweep == Init /\ SweepSettings

\* Weak fairness of LoopBody, WF_vars(LoopBody), written out with the
\* enabling condition of LoopBody: an iteration can run exactly when
\* pc = "loop" and range( Ncalc ) has a next value, and it always changes
\* the state (it moves i on or raises).
LoopBodyFair ==
    \/ []<>(~(pc = "loop" /\ InRange))
    \/ []<><<LoopBody>>_vars

\* The notebook's kernel runs the loop cell to its end: an iteration that can
\* run does run, and so does leaving the loop.
FairSpec == InitSweep /\ [][Next]_vars /\ LoopBodyFair /\ WF_vars(LoopExit)

\* ================================================================ claims
\* the colours measured for both galaxies q and r
BothPresent(q, r) == {k \in Colours : ~IsNaN(data_c[q][k]) /\ ~IsNaN(data_c[r][k])}

\* the threshold of the pair (last, r), looked up by the pair's own DOF
PairTh(r) == cmnn_thresh_table[DOF[r]]

\* C1 (self-exclusion): the query galaxy of an iteration is never a member of
\* the CMNN subset selected in that iteration, whatever cmnn_ppf and
\* cmnn_minNclr are.
C1_SelfExcluded == last >= 0 => last \notin index

C3_EmptySubsetIsNaN ==
    (last >= 0 /\ index = {}) =>
        /\ data_pz[last] = NaN
        /\ data_pze[last] = NaN
        /\ i = last + 1

\* C3 witnesses: an empty subset under the default parameters, and one under
\* another cmnn_ppf and cmnn_minNclr.
C3_Witness ==
    /\ last >= 0
    /\ index = {}
    /\ N >= 2
    /\ data_pz[last] = NaN
    /\ cmnn_ppf = 1
    /\ cmnn_minNclr = 4

\* C4 (point estimate): when the CMNN subset of the galaxy just processed is
\* not empty, its photo-z is the true redshift of a member of the subset
\* other than the galaxy itself.
C4_EstimateFromSubset ==
    (last >= 0 /\ index # {}) =>
        \E r \in index \ {last} : data_pz[last] = Num(data_tz[r])

\* C5 (DOF count): for the query of the last iteration and every galaxy r,
\* DOF[r] is the number of colours present in both, whatever their values.
C5_DOFCountsBothPresent ==
    last >= 0 => \A r \in Galaxies : DOF[r] = Cardinality(BothPresent(last, r))

\* C5 witness: a pair with different colour values, one colour missing in the
\* query only and another in the other galaxy only: 3 colours in common.
C5_Witness ==
    /\ last >= 0
    /\ \E r \in Galaxies \ {last} :
          /\ DOF[r] = 3
          /\ \E k \in BothPresent(last, r) : data_c[last][k] # data_c[r][k]

\* the colours that contribute a term to the distance of the pair (q, r):
\* np.nansum drops exactly the terms that are NaN
InDistance(q, r) == {k \in Colours : ~IsNaN(DMTerm(q, r, k))}

\* the colours counted in the DOF of the pair (q, r)
InDOF(q, r) == {k \in Colours : ~IsNaN(DOFTerm(q, r, k))}

\* C6 (distance and DOF are joint): for the query of the last iteration and
\* every galaxy r, the colours that contribute a term to the distance are
\* exactly the colours counted in the DOF, also when a colour error of the
\* query is missing.
C6_DistanceAndDOFJoint ==
    last >= 0 =>
        \A r \in Galaxies :
            /\ InDistance(last, r) = InDOF(last, r)
            /\ DOF[r] = Cardinality(InDistance(last, r))

\* C7 (zero colour error): a colour whose error is zero for the query is left
\* out of the DOF of every pair of that query, and no distance of that query
\* is infinite or NaN.
C7_ZeroErrorExcluded ==
    last >= 0 =>
        \A r \in Galaxies :
            /\ DOF[r] = Cardinality({k \in BothPresent(last, r) : data_ce[last][k] # Num(0)})
            /\ IsNum(DM[r])

\* C8 (single neighbour): when the CMNN subset of the galaxy just processed
\* has exactly one member, its photo-z uncertainty is exactly 0 and its
\* photo-z is the true redshift of that member.
C8_SingleNeighbour ==
    (last >= 0 /\ Cardinality(index) = 1) =>
        /\ data_pze[last] = Num(0)
        /\ \A r \in index : data_pz[last] = Num(data_tz[r])

\* C8 witness: a subset of one galaxy other than the query, at a redshift
\* other than 0.
C8_Witness ==
    /\ last >= 0
    /\ \E r \in Galaxies \ {last} : index = {r} /\ data_tz[r] # data_tz[last]
    /\ data_pze[last] = Num(0)

RealPz(g) == IsNum(data_pz[g])
\* the photo-z uncertainty of g is a real number >= 0
RealPze(g) == IsNum(data_pze[g]) /\ data_pze[g].v >= 0

\* C10 as stated: once the loop has finished, every galaxy of the Sample has
\* a photo-z that is real or NaN and an uncertainty that is real and >= 0 or
\* NaN, both NaN or both real.
C10_EveryGalaxyEstimated ==
    pc = "done" =>
        \A g \in Galaxies :
            \/ data_pz[g] = NaN /\ data_pze[g] = NaN
            \/ RealPz(g) /\ RealPze(g)

\* C10 as amended: once the loop has finished, every galaxy with an index
\* below Ncalc has either NaN for both fields, or the true redshift of a
\* galaxy of the Sample as photo-z and a real uncertainty >= 0; every galaxy
\* with an index of Ncalc or more still has -1.0 in both fields.
C10_ProcessedGalaxiesEstimated ==
    pc = "done" =>
        \A g \in Galaxies :
            IF g < Ncalc
            THEN \/ data_pz[g] = NaN /\ data_pze[g] = NaN
                 \/ /\ RealPz(g)
                    /\ \E r \in Galaxies : data_pz[g] = Num(data_tz[r])
                    /\ RealPze(g)
            ELSE data_pz[g] = Num(Unset) /\ data_pze[g] = Num(Unset)

\* C10 witness: the loop has finished with a galaxy estimated, a galaxy
\* without an estimate and a galaxy beyond Ncalc.
C10_Witness ==
    /\ pc = "done"
    /\ \E g, h, u \in Galaxies :
          /\ g < Ncalc /\ RealPz(g) /\ RealPze(g)
          /\ h < Ncalc /\ data_pz[h] = NaN
          /\ u >= Ncalc

\* the galaxies that have been the query in this pass
Processed == DOMAIN subsets

NothingWritten ==
    /\ Processed = {}
    /\ \A g \in Galaxies : data_pz[g] = Num(Unset) /\ data_pze[g] = Num(Unset)

\* C12 (invalid confidence probability): with cmnn_ppf outside the open
\* interval (0,1) the run is rejected: the loop never finishes and no galaxy
\* is estimated.
C12_InvalidPpfRejected ==
    (cmnn_ppf <= 0 \/ cmnn_ppf >= 1000) => (pc # "done" /\ NothingWritten)

\* C13 (invalid minD or empty Sample): with cmnn_minNclr outside 1..K, or
\* with a Sample of no galaxies, the run is rejected at start-up: the loop
\* never finishes and no output field of any galaxy is written.
C13_InvalidStartRejected ==
    (cmnn_minNclr \notin 1..K \/ N = 0) => (pc # "done" /\ NothingWritten)

\* C14 (threshold table): the entry of cmnn_thresh_table for d = 0 is exactly
\* 0 whatever cmnn_ppf is, and for a probability cmnn_ppf (0 to 1) the entries
\* are non-decreasing in d over 0..K.
C14_TableZeroAndMonotone ==
    /\ cmnn_thresh_table[0] = Num(0)
    /\ (cmnn_ppf >= 0 /\ cmnn_ppf <= 1000) =>
          \A d \in 0..(K - 1) : FLe(cmnn_thresh_table[d], cmnn_thresh_table[d + 1])

\* C14 witness: the table of cmnn_ppf = 0.68 has been used by an iteration:
\* 0 for d = 0, 5.860802 for d = 5.
C14_Witness ==
    /\ cmnn_ppf = 680
    /\ cmnn_thresh_table[0] = Num(0)
    /\ cmnn_thresh_table[K] = Num(5860802)
    /\ last >= 0
    /\ \E r \in Galaxies : DOF[r] = K /\ data_th[r] = cmnn_thresh_table[K]

\* C15 (Sample is read-only): no step changes a galaxy's colours, colour
\* uncertainties or true redshift, the threshold table or the configuration
\* (cmnn_ppf, cmnn_minNclr, Ncalc); what a loop step writes of the Sample is
\* the two output fields.
C15_SampleReadOnly ==
    [][UNCHANGED <<data_c, data_ce, data_tz, cmnn_thresh_table,
                   cmnn_ppf, cmnn_minNclr, Ncalc>>]_vars

\* C15 witness: an iteration has used the Sample (a reference with all K
\* colours in common was selected) and has written an estimate.
C15_Witness ==
    /\ last >= 0
    /\ i = last + 1
    /\ \E r \in index : DOF[r] = K
    /\ RealPz(last)
    /\ RealPze(last)

\* C16 (cancellation safety): within a pass, processing query i changes no
\* output field of any galaxy other than i, a step that is not an iteration
\* changes no output field at all, and the output fields of a galaxy already
\* processed are never changed again.
C16_OnlyOwnSlotWritten ==
    [][run' = run =>
         /\ \A g \in Galaxies \ {i} :
               data_pz'[g] = data_pz[g] /\ data_pze'[g] = data_pze[g]
         /\ subsets' = subsets => (data_pz' = data_pz /\ data_pze' = data_pze)
         /\ \A g \in Processed :
               data_pz'[g] = data_pz[g] /\ data_pze'[g] = data_pze[g]]_vars

\* C16 witness: two galaxies have been processed with different results and
\* a third, not yet processed, still holds the initial -1.0.
C16_Witness ==
    \E g, h, u \in Galaxies :
        /\ g \in Processed /\ h \in Processed /\ u \notin Processed
        /\ g < h
        /\ RealPz(g)
        /\ data_pz[h] = NaN
        /\ data_pz[u] = Num(Unset) /\ data_pze[u] = Num(Unset)

\* ------------------------------------------------- any order of the queries
\* The loop of the notebook runs the queries in index order.  The iterations
\* as units of parallel work: the same loop body, run once for each value of
\* range( Ncalc ), in any order, on the shared arrays and the shared random
\* generator.
Pending == (0..(Ncalc - 1)) \ Processed

StepAny ==
    /\ pc = "loop"
    /\ \E q \in Pending : Iterate(q)

ExitAny ==
    /\ pc = "loop"
    /\ Pending = {}
    /\ pc' = "done"
    /\ UNCHANGED <<sample, config, output, i, err, locals, rng, passes, subsets, order, summary>>

NextAnyOrder == StepAny \/ ExitAny \/ Summary \/ Rerun

\* The Samples of two rich galaxies, and the Samples of up to MaxN plain
\* galaxies under the notebook's settings with every Ncalc of the sweep.
InitAnyOrder == Init /\ (InitPair \/ SweepSettings)

SpecAnyOrder == InitAnyOrder /\ [][NextAnyOrder]_vars

\* C17 (order independence): in whatever order the queries are run, the
\* result of query g is in output slot g (exactly the galaxies that were the
\* query hold a written slot, NaN for an empty CMNN subset and otherwise
\* the true redshift of a member of the subset of g), and two passes over
\* the same Sample in any two orders give every galaxy the same CMNN subset,
\* the same success / no-estimate status and the same photo-z uncertainty.
C17_OrderIndependent ==
    /\ \A g \in Galaxies :
          IF g \in Processed
          THEN IF subsets[g] = {}
               THEN data_pz[g] = NaN /\ data_pze[g] = NaN
               ELSE /\ \E r \in subsets[g] : data_pz[g] = Num(data_tz[r])
                    /\ ~IsNaN(data_pze[g])
          ELSE data_pz[g] = Num(Unset) /\ data_pze[g] = Num(Unset)
    /\ run = 2 =>
          \A g \in Processed :
              /\ g \in DOMAIN first_subsets
              /\ subsets[g] = first_subsets[g]
              /\ IsNaN(data_pz[g]) <=> IsNaN(first_pz[g])
              /\ data_pze[g] = first_pze[g]

\* C17 witness: two passes over three galaxies have finished, the first in
\* index order and the second in the reverse order, with a galaxy that got
\* an estimate from its subset and a galaxy that got none.
C17_Witness ==
    /\ run = 2
    /\ pc = "done"
    /\ first_order = <<0, 1, 2>>
    /\ order = <<2, 1, 0>>
    /\ \E g, h \in Galaxies :
          /\ subsets[g] # {}
          /\ RealPz(g)
          /\ subsets[h] = {}

\* no reference qualifies as a neighbour of galaxy q
NoNeighbour(q) == Select(ResetSelf(DMRow(q), q), DOFRow(q), ThRow(DOFRow(q))) = {}

\* the next iteration reaches its selection (the progress report raises
\* nothing before it) and its query, a galaxy of the Sample, has no
\* qualifying neighbour
EmptyIterationNext ==
    /\ pc = "loop"
    /\ i < Ncalc
    /\ i < N
    /\ ~(ProgressFires(i) /\ i = 0)
    /\ NoNeighbour(i)

\* C18 as stated: once the loop has finished, every galaxy of the Sample
\* after a query galaxy that got no qualifying neighbour has been processed.
C18_EveryLaterGalaxyProcessed ==
    pc = "done" =>
        \A g \in Processed :
            subsets[g] = {} => \A h \in Galaxies : h > g => h \in Processed

\* C18 as amended: an iteration whose query has no qualifying neighbour
\* raises nothing and leaves the loop running at the next index, with NaN
\* written to both output fields of the query; and from such an iteration
\* on, every galaxy with an index below Ncalc is eventually processed.
C18_FailureIsLocal ==
    /\ [][EmptyIterationNext =>
            /\ pc' = "loop"
            /\ err' = "none"
            /\ i' = i + 1
            /\ data_pz'[i] = NaN
            /\ data_pze'[i] = NaN]_vars
    /\ (EmptyIterationNext ~> (\A h \in Galaxies : h < Ncalc => h \in Processed))

\* C18 witness: the loop has finished with a galaxy that got no estimate and
\* a later galaxy that got one.
C18_Witness ==
    /\ pc = "done"
    /\ \E g, h \in Processed :
          /\ g < h
          /\ subsets[g] = {}
          /\ data_pz[g] = NaN
          /\ subsets[h] # {}
          /\ RealPz(h)

\* C19 (summary counts): the summary printed after the loop gives the number
\* of galaxies without an estimate and the number with one; the first is the
\* number of processed galaxies whose CMNN subset was empty, the second the
\* number of processed galaxies whose subset was not, and so the two add up
\* to the number of galaxies processed.
C19_CountsPartitionProcessed ==
    summary # << >> =>
        /\ summary[1] = Cardinality({g \in Processed : subsets[g] = {}})
        /\ summary[2] = Cardinality({g \in Processed : subsets[g] # {}})
        /\ summary[1] + summary[2] = Cardinality(Processed)

\* C19 witness: the summary has been printed after a loop that left a
\* galaxy unprocessed, with a galaxy counted on either side.
C19_Witness ==
    /\ summary # << >>
    /\ Ncalc < N
    /\ summary[1] >= 1
    /\ summary[2] >= 1

\* ------------------------------------------------- the close/far scenario
\* A Sample of five galaxies, every colour measured with the same error
\* sigma.  Galaxy 0 has every colour 0; galaxies 1 and 2 differ from it by
\* 1/300, 2/300 or 3/300 of sigma (0.0033, 0.0067 or 0.01 sigma) in every
\* colour; galaxies 3 and 4 differ from it by 5 sigma in every colour.
ScenarioSigma == 300
CloseMags == {MagVec(a, {}) : a \in {1, 2, 3}}
FarMag == MagVec(5 * ScenarioSigma, {})

InitScenario ==
    /\ \E m1, m2 \in CloseMags :
          data_m = [g \in 0..4 |-> IF g = 0 THEN MagVec(0, {})
                                   ELSE IF g = 1 THEN m1
                                   ELSE IF g = 2 THEN m2
                                   ELSE FarMag]
    /\ data_me = [g \in 0..4 |-> MagErrVec(ScenarioSigma)]
    /\ data_c = [g \in DOMAIN data_m |-> ColoursOf(data_m[g])]
    /\ data_ce = [g \in DOMAIN data_me |-> ColourErrsOf(data_me[g])]
    /\ data_tz = ZVec(0..4, 10)
    /\ cmnn_ppf = 680
    /\ cmnn_minNclr = 5
    /\ Ncalc = 5
    /\ seed \in {0} \X Seeds
    /\ cmnn_thresh_table = ThreshTable(cmnn_ppf)
    /\ data_pz = FreshOutput
    /\ data_pze = FreshOutput
    /\ i = 0
    /\ pc = "loop"
    /\ err = "none"
    /\ last = -1
    /\ DM = << >>
    /\ DOF = << >>
    /\ data_th = << >>
    /\ index = {}
    /\ rng = seed[1]
    /\ run = 1
    /\ first_pz = << >>
    /\ first_pze = << >>
    /\ subsets = << >>
    /\ first_subsets = << >>
    /\ order = << >>
    /\ first_order = << >>
    /\ summary = << >>

SpecScenario == InitScenario /\ [][Next]_vars

\* the sum over the colours of the squared colour differences of q and r
SqDist(q, r) ==
    SetSum(Colours, [k \in Colours |-> (data_c[r][k].v - data_c[q][k].v) * (data_c[r][k].v - data_c[q][k].v)])

C21_ColoursFromMagnitudes ==
    \A g \in Galaxies : \A k \in Colours :
        /\ IsNaN(data_c[g][k]) <=> (IsNaN(data_m[g][k]) \/ IsNaN(data_m[g][k + 1]))
        /\ ~IsNaN(data_c[g][k]) =>
              data_c[g][k] = Num(data_m[g][k].v - data_m[g][k + 1].v)
        /\ IsNaN(data_ce[g][k]) <=> (IsNaN(data_me[g][k]) \/ IsNaN(data_me[g][k + 1]))

\* C21 witness: the loop has run a query whose second magnitude and first
\* magnitude error are missing: its colours 1 and 2 and its colour error 1
\* are NaN, its colour 3 is a number.
C21_Witness ==
    /\ last >= 0
    /\ IsNaN(data_m[last][2])
    /\ IsNaN(data_me[last][1])
    /\ IsNaN(data_c[last][1])
    /\ IsNaN(data_c[last][2])
    /\ IsNum(data_c[last][3])
    /\ IsNaN(data_ce[last][1])
    /\ IsNum(data_ce[last][2])

\* C22 (progress reporting): the progress report never stops the loop at the
\* galaxy at which it fires, whatever Ncalc is: the loop is never ended by an
\* exception at an index i of the Sample at which the report fires, and no
\* output field is left unwritten because of it.
C22_ProgressNeverStopsLoop ==
    ~(/\ pc = "error"
      /\ ProgressFires(i)
      /\ i \in Galaxies
      /\ data_pz[i] = Num(Unset))

\* C23 (sample limit is a cap): whatever Ncalc is, the loop is never ended
\* by running past the end of the Sample, a loop that has finished has
\* processed exactly the galaxies below Ncalc, and no output field of a
\* galaxy with an index of Ncalc or more is ever written.
C23_LimitIsCap ==
    /\ ~(pc = "error" /\ err = "IndexError")
    /\ pc = "done" => Processed = {g \in Galaxies : g < Ncalc}
    /\ \A g \in Galaxies :
          g >= Ncalc => (data_pz[g] = Num(Unset) /\ data_pze[g] = Num(Unset))

\* C24 (duplicates are rejected): a galaxy other than the query whose
\* distance to the query is exactly 0 is never in the query's CMNN subset,
\* and when every other galaxy is at distance 0 or beyond its threshold the
\* query's photo-z and photo-z uncertainty are both NaN.
C24_DuplicatesRejected ==
    last >= 0 =>
        /\ \A r \in Galaxies \ {last} : DM[r] = Num(0) => r \notin index
        /\ ( /\ Galaxies \ {last} # {}
             /\ \A r \in Galaxies \ {last} :
                   DM[r] = Num(0) \/ FGt(DM[r], PairTh(r)) )
           => (data_pz[last] = NaN /\ data_pze[last] = NaN)

\* C25 (the uncertainty ignores the random draw): the photo-z uncertainty of
\* every processed galaxy is NaN for an empty CMNN subset and otherwise the
\* standard deviation of the true redshifts of the whole subset, whatever
\* state the generator is in; so in a second pass over the same Sample with
\* the same parameters and any other generator state every galaxy gets the
\* same uncertainty and the same success / no-estimate status as in the
\* first pass, and only the photo-z itself may differ.
C25_UncertaintyIgnoresDraw ==
    /\ \A g \in Processed :
          /\ data_pze[g] = (IF subsets[g] = {} THEN NaN ELSE Std(subsets[g]))
          /\ IsNaN(data_pz[g]) <=> subsets[g] = {}
    /\ run = 2 =>
          \A g \in Processed :
              /\ data_pze[g] = first_pze[g]
              /\ IsNaN(data_pz[g]) <=> IsNaN(first_pz[g])

\* C25 witness: two passes from different generator states have finished, a
\* galaxy got a different photo-z in each of them and the same uncertainty,
\* above zero, in both.
C25_Witness ==
    /\ run = 2
    /\ pc = "done"
    /\ seed[1] # seed[2]
    /\ \E g \in Processed :
          /\ data_pz[g] # first_pz[g]
          /\ IsNum(data_pz[g])
          /\ data_pze[g] = first_pze[g]
          /\ FGt(data_pze[g], Num(0))

\* colour-error vectors a galaxy of the Sample may have instead of its own
AltErrs == {ColourErrsOf(me) : me \in PairMagErrs} \cup {[k \in Colours |-> Num(2)]}

\* the distance of the pair (q, r) when the colour errors of r are e
DistanceWith(q, r, e) ==
    NanSum([k \in Colours |->
              DMTermOn(data_c, [data_ce EXCEPT ![r] = e], q, r, k)])

\* C26 (the distance uses only the query's errors): for the query of the
\* last iteration and every other galaxy r, the distance DM[r] and the
\* membership of r in the CMNN subset are what they would be with any
\* other colour errors of r.
C26_ReferenceErrorsUnused ==
    last >= 0 =>
        \A r \in Galaxies \ {last} : \A e \in AltErrs :
            /\ DM[r] = DistanceWith(last, r, e)
            /\ r \in index <=>
                  r \in Select([DM EXCEPT ![r] = DistanceWith(last, r, e)],
                                DOF, data_th)

\* C26 witness: a selected galaxy whose colour errors are not those of the
\* query, and whose distance from the query is not the distance of the
\* query from it.
C26_Witness ==
    /\ last >= 0
    /\ \E r \in index \ {last} :
          /\ data_ce[r] # data_ce[last]
          /\ DM[r] # NanSum([k \in Colours |-> DMTerm(r, last, k)])

\* galaxy g has a colour that is missing
MissesColour(g) == \E k \in Colours : IsNaN(data_c[g][k])

\* the next iteration reaches its distance computation (the progress report
\* raises nothing before it), cmnn_minNclr is the number of colours and the
\* query, a galaxy of the Sample, has a missing colour
IncompleteQueryNext ==
    /\ pc = "loop"
    /\ i < Ncalc
    /\ i < N
    /\ ~(ProgressFires(i) /\ i = 0)
    /\ cmnn_minNclr = K
    /\ MissesColour(i)

\* C27 (missing colours when cmnn_minNclr is the number of colours): every
\* member of the CMNN subset of the last query has all colours present, and
\* so has the query; a query with a missing colour has NaN in both output
\* fields; and the iteration of such a query raises nothing, writes the two
\* NaN and leaves the loop running at the next index.
C27_MissingColoursNoEstimate ==
    /\ []((last >= 0 /\ cmnn_minNclr = K) =>
             /\ \A r \in index : BothPresent(last, r) = Colours
             /\ MissesColour(last) =>
                   (index = {} /\ data_pz[last] = NaN /\ data_pze[last] = NaN))
    /\ [][IncompleteQueryNext =>
            /\ pc' = "loop"
            /\ err' = "none"
            /\ i' = i + 1
            /\ data_pz'[i] = NaN
            /\ data_pze'[i] = NaN]_vars

\* C27 witness: cmnn_minNclr is the number of colours; the last query has a
\* missing colour and no estimate although a galaxy with four colours in
\* common is within its threshold, and the loop goes on.
C27_Witness ==
    /\ last >= 0
    /\ cmnn_minNclr = K
    /\ MissesColour(last)
    /\ data_pz[last] = NaN
    /\ i = last + 1
    /\ pc = "loop"
    /\ \E r \in Galaxies \ {last} :
          /\ DOF[r] = K - 1
          /\ FGt(DM[r], Num(Eps))
          /\ FLe(DM[r], PairTh(r))

\* the number of draws the queries before g have taken in the current pass
DrawsBefore(g) == Cardinality({h \in Processed : h < g /\ subsets[h] # {}})

\* C28 (consumption of the random stream): in a pass in index order that
\* started with the generator in state seed[run], the generator has advanced
\* by one draw for each processed galaxy with a non-empty CMNN subset and by
\* none for a galaxy with an empty one, and the draw a galaxy used is the
\* one at the position given by the number of earlier galaxies with a
\* non-empty subset.
C28_OneDrawPerEstimate ==
    /\ rng = (seed[run] + DrawsBefore(N)) % RngMod
    /\ \A g \in Processed :
          subsets[g] # {} =>
              data_pz[g] =
                  Num(data_tz[Choice(subsets[g], (seed[run] + DrawsBefore(g)) % RngMod)])

\* C28 witness: a pass has finished in which a galaxy with an empty subset
\* lies between two galaxies that took a draw each, so that the generator
\* is two draws from the state it started in.
C28_Witness ==
    /\ pc = "done"
    /\ \E f, g, h \in Processed :
          /\ f < g /\ g < h
          /\ subsets[f] # {}
          /\ subsets[g] = {}
          /\ subsets[h] # {}
    /\ rng = RngNext(RngNext(seed[run]))

\* galaxy r meets the selection criteria of the last query
Qualifies(r) ==
    /\ DOF[r] >= cmnn_minNclr
    /\ FGt(PairTh(r), Num(Eps))
    /\ FGt(DM[r], Num(Eps))
    /\ FLe(DM[r], PairTh(r))

\* C29 (the reference set is the full Sample): the distance, the DOF and
\* the threshold of the last query are computed for every galaxy of the
\* Sample, and every galaxy other than the query that meets the selection
\* criteria is in the CMNN subset, whether its index is below Ncalc or not
\* and whether it has been a query already or not.
C29_ReferenceSetIsSample ==
    last >= 0 =>
        /\ DOMAIN DM = Galaxies
        /\ DOMAIN DOF = Galaxies
        /\ DOMAIN data_th = Galaxies
        /\ \A r \in Galaxies \ {last} :
              /\ DM[r] = NanSum([k \in Colours |-> DMTerm(last, r, k)])
              /\ Qualifies(r) <=> r \in index

\* C29 witness: Ncalc is less than the size of the Sample, and the subset
\* of the last query has a member with an index of Ncalc or more and one
\* that has been a query before.
C29_Witness ==
    /\ last >= 1
    /\ Ncalc < N
    /\ \E r, u \in index \ {last} :
          /\ r >= Ncalc
          /\ u < last

\* C30 (the threshold is looked up pair by pair): for the last query and
\* every galaxy r, DOF[r] is in 0..K and the threshold data_th[r] is the
\* table entry of DOF[r]; a galaxy with DOF[r] = 0 has threshold 0 and is
\* not in the CMNN subset, whatever cmnn_minNclr is.
C30_ThresholdOfOwnDOF ==
    last >= 0 =>
        \A r \in Galaxies :
            /\ DOF[r] \in 0..K
            /\ data_th[r] = cmnn_thresh_table[DOF[r]]
            /\ DOF[r] = 0 => (data_th[r] = Num(0) /\ r \notin index)

\* C30 witness: cmnn_minNclr is 0; the last query has all colours and so a
\* threshold above zero for itself, and another galaxy has no colour in
\* common with it: DOF 0, threshold 0, not selected.
C30_Witness ==
    /\ last >= 0
    /\ cmnn_minNclr = 0
    /\ DOF[last] = K
    /\ FGt(data_th[last], Num(0))
    /\ \E r \in Galaxies \ {last} :
          /\ DOF[r] = 0
          /\ data_th[r] = Num(0)
          /\ r \notin index

====
